---- MODULE Spec2Model ----
(***************************************************************************)
(* Flows app template: the example block (blocks/exampleBlock.ts), the app *)
(* definition (main.ts), the block execution contract the app is written   *)
(* against, and the setup script (setup.sh).                               *)
(*                                                                         *)
(* Strings are sequences of one-character strings, so substring(),         *)
(* template-literal concatenation and "contains" are computed.  A          *)
(* JavaScript value is a record [t |-> type tag, v |-> characters].        *)
(***************************************************************************)
EXTENDS Naturals, Sequences, FiniteSets

VARIABLES
    appStatus,    \* "uninstalled" | "running" | "configError"
    rawConfig,    \* the installer's raw key/value map
    config,       \* the current resolved configuration snapshot
    updates,      \* number of configuration updates applied
    nextId,       \* id of the next event to be enqueued
    inv,          \* event id -> invocation record
    queue,        \* block instance -> queue of event ids on input "default"
    emitted,      \* events routed by the host, in order of emission
    log,          \* history: handler entries ("start") and settlements ("settle")
    reported,     \* event ids whose failure was surfaced to the host
    pc,           \* setup.sh: position in the script
    APP_NAME,     \* setup.sh: $APP_NAME
    APP_DESCRIPTION, \* setup.sh: $APP_DESCRIPTION
    files,        \* setup.sh: file name -> content (sequence of tokens)
    stdout,       \* setup.sh: status lines echoed so far
    steps,        \* setup.sh: commands that ran, in order
    exitCode      \* setup.sh: exit status (NoExit while running)

runtimeVars == <<appStatus, rawConfig, config, updates, nextId, inv, queue,
                 emitted, log, reported>>
setupVars == <<pc, APP_NAME, APP_DESCRIPTION, files, stdout, steps, exitCode>>
vars == <<appStatus, rawConfig, config, updates, nextId, inv, queue,
          emitted, log, reported,
          pc, APP_NAME, APP_DESCRIPTION, files, stdout, steps, exitCode>>

----------------------------------------------------------------------------
(* Bounds *)

MaxEvents == 2
MaxUpdates == 1
NumInstances == 2

Events == 1..MaxEvents
Instances == 1..NumInstances

----------------------------------------------------------------------------
(* Values and strings *)

Str(s) == [t |-> "string", v |-> s]
Undefined == [t |-> "undefined", v |-> <<>>]

Min(a, b) == IF a < b THEN a ELSE b

\* String.prototype.substring(start, end) with 0 <= start <= end
substring(s, start, end) == SubSeq(s, start + 1, Min(end, Len(s)))

\* ${x} in a template literal
ToString(x) ==
    IF x.t = "undefined"
    THEN <<"u", "n", "d", "e", "f", "i", "n", "e", "d">>
    ELSE x.v

----------------------------------------------------------------------------
(* main.ts: the app definition *)

\* "https://api.example.com"
DefaultBaseUrl ==
    <<"h", "t", "t", "p", "s", ":", "/", "/", "a", "p", "i", ".",
      "e", "x", "a", "m", "p", "l", "e", ".", "c", "o", "m">>

\* app.config with apiKey not required (mutant)
AppConfigApiKeyOptional ==
    [apiKey  |-> [type |-> "string", required |-> FALSE, sensitive |-> TRUE,
                  hasDefault |-> FALSE, default |-> Undefined],
     baseUrl |-> [type |-> "string", required |-> FALSE, sensitive |-> FALSE,
                  hasDefault |-> TRUE, default |-> Str(DefaultBaseUrl)]]

\* app.config with baseUrl's default dropped (mutant)
AppConfigNoDefault ==
    [apiKey  |-> [type |-> "string", required |-> TRUE, sensitive |-> TRUE,
                  hasDefault |-> FALSE, default |-> Undefined],
     baseUrl |-> [type |-> "string", required |-> FALSE, sensitive |-> FALSE,
                  hasDefault |-> FALSE, default |-> Undefined]]

\* app.config
AppConfig ==
    [apiKey  |-> [type |-> "string", required |-> TRUE, sensitive |-> TRUE,
                  hasDefault |-> FALSE, default |-> Undefined],
     baseUrl |-> [type |-> "string", required |-> FALSE, sensitive |-> FALSE,
                  hasDefault |-> TRUE, default |-> Str(DefaultBaseUrl)]]

ConfigFields == {"apiKey", "baseUrl"}

----------------------------------------------------------------------------
(* blocks/exampleBlock.ts *)

\* inputs.default.config with message not required (mutant)
InputConfigMessageOptional ==
    [message |-> [type |-> "string", required |-> FALSE]]

\* exampleBlock.inputs.default.config
InputConfig ==
    [message |-> [type |-> "string", required |-> TRUE]]

\* exampleBlock.outputs
Outputs ==
    [default |-> [default    |-> TRUE,
                  properties |-> [message |-> "string", originalMessage |-> "string"],
                  required   |-> {"message", "originalMessage"}]]

\* apiKey.substring(0, 8): the end index
MaskLen == 8

S_Processed == <<"P", "r", "o", "c", "e", "s", "s", "e", "d", ":", " ">>
S_Using == <<" ", "(", "u", "s", "i", "n", "g", " ">>
S_WithKey == <<" ", "w", "i", "t", "h", " ", "A", "P", "I", " ", "k", "e", "y", ":", " ">>
S_Dots == <<".", ".", ".", ")">>

NoPayload == [none |-> TRUE]

\* onEvent emitting the processed text in both fields (mutant)
onEventSwappedFields(input) ==
    LET message == input.event.inputConfig.message
        apiKey == input.app.config.apiKey
        baseUrl == input.app.config.baseUrl
        processedMessage ==
            Str(S_Processed \o ToString(message) \o S_Using \o ToString(baseUrl)
                \o S_WithKey \o substring(apiKey.v, 0, MaskLen) \o S_Dots)
    IN IF apiKey.t # "string"
       THEN [threw |-> TRUE, payload |-> NoPayload]
       ELSE [threw |-> FALSE,
             payload |-> [message |-> processedMessage,
                          originalMessage |-> processedMessage]]

\* onEvent emitting without originalMessage (mutant)
onEventMissingField(input) ==
    LET message == input.event.inputConfig.message
        apiKey == input.app.config.apiKey
        baseUrl == input.app.config.baseUrl
        processedMessage ==
            Str(S_Processed \o ToString(message) \o S_Using \o ToString(baseUrl)
                \o S_WithKey \o substring(apiKey.v, 0, MaskLen) \o S_Dots)
    IN IF apiKey.t # "string"
       THEN [threw |-> TRUE, payload |-> NoPayload]
       ELSE [threw |-> FALSE, payload |-> [message |-> processedMessage]]

\* onEvent up to the call of events.emit: the payload it passes, or a
\* TypeError when apiKey has no substring method
onEvent(input) ==
    LET message == input.event.inputConfig.message
        apiKey == input.app.config.apiKey
        baseUrl == input.app.config.baseUrl
        processedMessage ==
            Str(S_Processed \o ToString(message) \o S_Using \o ToString(baseUrl)
                \o S_WithKey \o substring(apiKey.v, 0, MaskLen) \o S_Dots)
    IN IF apiKey.t # "string"
       THEN [threw |-> TRUE, payload |-> NoPayload]
       ELSE [threw |-> FALSE,
             payload |-> [message |-> processedMessage,
                          originalMessage |-> message]]

\* a handler that catches the rejection of events.emit (mutant)
awaitEmitCaught(settled) == "return"

\* await events.emit(...): a rejection propagates out of the handler, which
\* has no try/catch
awaitEmit(settled) == IF settled = "rejected" THEN "throw" ELSE "return"

\* events.emit(payload) names no output: the event goes to the output
\* flagged default
EmitOutput == CHOOSE k \in DOMAIN Outputs : Outputs[k].default

----------------------------------------------------------------------------
(* The host runtime: configuration resolution, dispatch, emission *)

\* Configuration resolution: an unset field takes its declared default, a
\* set field must have the declared type, and a required field must end up
\* present and non-empty
ResolveField(spec, raw) ==
    LET val == IF raw.t = "undefined" /\ spec.hasDefault THEN spec.default ELSE raw
    IN IF val.t = "undefined" \/ (val.t = "string" /\ val.v = <<>>)
       THEN [ok |-> ~spec.required, value |-> val]
       ELSE [ok |-> val.t = spec.type, value |-> val]

ResolveConfig(raw) ==
    [ok     |-> \A f \in ConfigFields : ResolveField(AppConfig[f], raw[f]).ok,
     config |-> [f \in ConfigFields |-> ResolveField(AppConfig[f], raw[f]).value]]

\* Input validation: a required parameter is present, a present one has the
\* declared type
ValidateInput(params) ==
    \A k \in DOMAIN InputConfig :
        IF params[k].t = "undefined"
        THEN ~InputConfig[k].required
        ELSE params[k].t = InputConfig[k].type

\* Emission contract: the output is declared and the payload has the
\* required properties, each of its declared type
Conforms(output, payload) ==
    /\ output \in DOMAIN Outputs
    /\ Outputs[output].required \subseteq DOMAIN payload
    /\ \A k \in DOMAIN payload :
           k \in DOMAIN Outputs[output].properties
               => payload[k].t = Outputs[output].properties[k]

\* the most recently queued event (mutant)
LastQueued(q) == q[Len(q)]

\* the event dispatched next from a queue: the oldest
NextToDispatch(q) == Head(q)

Remove(q, e) == SelectSeq(q, LAMBDA x : x # e)

\* Values an installer may supply
RawApiKeys == {Undefined, Str(<<>>), Str(<<"a", "b", "c">>),
               Str(<<"s", "e", "c", "r", "e", "t", "1", "2", "3">>)}
RawBaseUrls == {Undefined, Str(<<"h", "t", "t", "p", ":", "/", "/", "h">>)}
RawConfigs == [apiKey : RawApiKeys, baseUrl : RawBaseUrls]

\* Values an upstream event may carry as message
Messages == {Undefined, Str(<<"h", "i">>)}

\* History entries
Start(e) == [op |-> "start", e |-> e]
Settle(e) == [op |-> "settle", e |-> e]

NoConfig == [f \in ConfigFields |-> Undefined]

NoInvocation ==
    [status |-> "none", inst |-> 0, params |-> [message |-> Undefined],
     config |-> NoConfig, payload |-> NoPayload, emitRejected |-> FALSE]

RuntimeInit ==
    /\ appStatus = "uninstalled"
    /\ rawConfig = NoConfig
    /\ config = NoConfig
    /\ updates = 0
    /\ nextId = 1
    /\ inv = [e \in Events |-> NoInvocation]
    /\ queue = [i \in Instances |-> <<>>]
    /\ emitted = <<>>
    /\ log = <<>>
    /\ reported = {}

\* The installer submits the configuration form
Install(raw) ==
    /\ appStatus = "uninstalled"
    /\ rawConfig' = raw
    /\ LET r == ResolveConfig(raw)
       IN IF r.ok
          THEN appStatus' = "running" /\ config' = r.config
          ELSE appStatus' = "configError" /\ config' = config
    /\ UNCHANGED <<updates, nextId, inv, queue, emitted, log, reported>>

\* The installer updates the configuration: a new snapshot replaces the
\* current one
UpdateConfig(raw) ==
    /\ appStatus = "running"
    /\ updates < MaxUpdates
    /\ raw # rawConfig
    /\ ResolveConfig(raw).ok
    /\ rawConfig' = raw
    /\ config' = ResolveConfig(raw).config
    /\ updates' = updates + 1
    /\ UNCHANGED <<appStatus, nextId, inv, queue, emitted, log, reported>>

\* An upstream event arrives on input "default" of block instance i.
\* Instances are interchangeable and are numbered in order of first use.
Enqueue(i, m) ==
    /\ appStatus # "uninstalled"
    /\ i = 1 \/ \E e \in Events : inv[e].inst = i - 1
    /\ nextId <= MaxEvents
    /\ inv' = [inv EXCEPT ![nextId] =
                  [NoInvocation EXCEPT !.status = "queued", !.inst = i,
                                       !.params = [message |-> m]]]
    /\ queue' = [queue EXCEPT ![i] = Append(@, nextId)]
    /\ nextId' = nextId + 1
    /\ UNCHANGED <<appStatus, rawConfig, config, updates, emitted, log,
                   reported>>

\* The host takes the next event of instance i's queue, validates its
\* parameters and, if they are valid, enters the handler, which runs to its
\* await of events.emit
Dispatch(i) ==
    /\ appStatus = "running"
    /\ queue[i] # <<>>
    /\ LET e == NextToDispatch(queue[i])
           input == [event |-> [inputConfig |-> inv[e].params],
                     app   |-> [config |-> config]]
       IN /\ queue' = [queue EXCEPT ![i] = Remove(@, e)]
          /\ IF ~ValidateInput(inv[e].params)
             THEN /\ inv' = [inv EXCEPT ![e].status = "rejected"]
                  /\ reported' = reported \cup {e}
                  /\ log' = Append(log, Settle(e))
             ELSE LET r == onEvent(input)
                  IN IF r.threw
                     THEN /\ inv' = [inv EXCEPT ![e].status = "failed",
                                                ![e].config = config]
                          /\ reported' = reported \cup {e}
                          /\ log' = log \o <<Start(e), Settle(e)>>
                     ELSE /\ inv' = [inv EXCEPT ![e].status = "awaiting",
                                                ![e].config = config,
                                                ![e].payload = r.payload]
                          /\ log' = Append(log, Start(e))
                          /\ UNCHANGED reported
    /\ UNCHANGED <<appStatus, rawConfig, config, updates, nextId, emitted>>

\* events.emit of invocation e is accepted by the host: the event is routed
\* and the handler returns
EmitResolve(e) ==
    /\ inv[e].status = "awaiting"
    /\ IF Conforms(EmitOutput, inv[e].payload) /\ awaitEmit("fulfilled") = "return"
       THEN /\ emitted' = Append(emitted, [src |-> e, output |-> EmitOutput,
                                            payload |-> inv[e].payload])
            /\ inv' = [inv EXCEPT ![e].status = "done"]
            /\ UNCHANGED reported
       ELSE /\ inv' = [inv EXCEPT ![e].status = "failed"]
            /\ reported' = reported \cup {e}
            /\ UNCHANGED emitted
    /\ log' = Append(log, Settle(e))
    /\ UNCHANGED <<appStatus, rawConfig, config, updates, nextId, queue>>

\* events.emit of invocation e is rejected
EmitReject(e) ==
    /\ inv[e].status = "awaiting"
    /\ IF awaitEmit("rejected") = "throw"
       THEN /\ inv' = [inv EXCEPT ![e].status = "failed", ![e].emitRejected = TRUE]
            /\ reported' = reported \cup {e}
       ELSE /\ inv' = [inv EXCEPT ![e].status = "done", ![e].emitRejected = TRUE]
            /\ UNCHANGED reported
    /\ log' = Append(log, Settle(e))
    /\ UNCHANGED <<appStatus, rawConfig, config, updates, nextId, queue,
                   emitted>>

----------------------------------------------------------------------------
(* setup.sh *)

PH_NAME == "{{APP_NAME}}"
PH_DESC == "{{APP_DESCRIPTION}}"

\* The template's files, as the tokens that matter to the script: the two
\* placeholders and other text ("t")
PackageJson == <<"t", PH_NAME, PH_DESC>>
MainTs == <<"t", PH_NAME, PH_DESC, "t">>
TypesTs == <<"t", PH_NAME, PH_DESC>>
ReadmeMd == <<"t", PH_NAME, PH_DESC, "t">>
BlocksIndexTs == <<"t", PH_NAME, "t">>
ExampleBlockTs == <<"t">>

TemplateFiles ==
    [f \in {"package.json", "main.ts", "types.ts", "README.md",
            "blocks/index.ts", "blocks/exampleBlock.ts"} |->
        CASE f = "package.json" -> PackageJson
          [] f = "main.ts" -> MainTs
          [] f = "types.ts" -> TypesTs
          [] f = "README.md" -> ReadmeMd
          [] f = "blocks/index.ts" -> BlocksIndexTs
          [] OTHER -> ExampleBlockTs]

\* The files named on the sed command lines
SedTargets == {"package.json", "main.ts", "types.ts", "README.md"}

\* Characters typed at the prompts: a letter, and the two characters the
\* s command treats specially in its replacement
InputChars == {"S", "&", "/"}
MaxInputLen == 2
Inputs == UNION {[1..n -> InputChars] : n \in 0..MaxInputLen}

RECURSIVE Flatten(_)
Flatten(ss) == IF ss = <<>> THEN <<>> ELSE Head(ss) \o Flatten(Tail(ss))

\* sed "s/pat/$repl/g": an unescaped / in the replacement ends it early and
\* the command is rejected
SedFails(repl) == \E k \in 1..Len(repl) : repl[k] = "/"

\* the replacement text for one match: & stands for the matched text
SedExpand(pat, repl) == [k \in 1..Len(repl) |-> IF repl[k] = "&" THEN pat ELSE repl[k]]

\* s/pat/repl/g over one file
SedFile(content, pat, repl) ==
    Flatten([k \in 1..Len(content) |->
                IF content[k] = pat THEN SedExpand(pat, repl) ELSE <<content[k]>>])

\* sed -i over the files named on the command line
SedInPlace(fs, pat, repl) ==
    [f \in DOMAIN fs |-> IF f \in SedTargets THEN SedFile(fs[f], pat, repl) ELSE fs[f]]

\* a check that wants both inputs empty (mutant)
InputsMissingBoth(name, desc) == name = <<>> /\ desc = <<>>

\* [[ -z "$APP_NAME" || -z "$APP_DESCRIPTION" ]]
InputsMissing(name, desc) == name = <<>> \/ desc = <<>>

SetupInit ==
    /\ pc = "read"
    /\ APP_NAME = <<>>
    /\ APP_DESCRIPTION = <<>>
    /\ files = TemplateFiles
    /\ stdout = <<>>
    /\ steps = <<>>
    /\ exitCode = "running"

\* set -e: a failing command ends the script with a non-zero status
Exit1 == pc' = "exit" /\ exitCode' = "1"

\* read -p ... APP_NAME; read -p ... APP_DESCRIPTION
ReadInputs(name, desc) ==
    /\ pc = "read"
    /\ APP_NAME' = name
    /\ APP_DESCRIPTION' = desc
    /\ pc' = "check"
    /\ UNCHANGED <<files, stdout, steps, exitCode>>

\* read fails at end of input
ReadEOF ==
    /\ pc = "read"
    /\ Exit1
    /\ UNCHANGED <<APP_NAME, APP_DESCRIPTION, files, stdout, steps>>

\* if [[ -z ... ]]; then echo ...; exit 1; fi; echo "Customizing template..."
CheckInputs ==
    /\ pc = "check"
    /\ IF InputsMissing(APP_NAME, APP_DESCRIPTION)
       THEN /\ stdout' = Append(stdout, "App name and description are required")
            /\ Exit1
       ELSE /\ stdout' = Append(stdout, "Customizing template...")
            /\ pc' = "sedName"
            /\ UNCHANGED exitCode
    /\ UNCHANGED <<APP_NAME, APP_DESCRIPTION, files, steps>>

\* sed -i "s/{{APP_NAME}}/$APP_NAME/g" package.json main.ts types.ts README.md
SedName ==
    /\ pc = "sedName"
    /\ IF SedFails(APP_NAME)
       THEN /\ Exit1
            /\ steps' = Append(steps, [cmd |-> "sed name", ok |-> FALSE])
            /\ UNCHANGED files
       ELSE /\ files' = SedInPlace(files, PH_NAME, APP_NAME)
            /\ steps' = Append(steps, [cmd |-> "sed name", ok |-> TRUE])
            /\ pc' = "sedDesc"
            /\ UNCHANGED exitCode
    /\ UNCHANGED <<APP_NAME, APP_DESCRIPTION, stdout>>

\* sed -i "s/{{APP_DESCRIPTION}}/$APP_DESCRIPTION/g" ...; echo "Placeholders replaced"
SedDesc ==
    /\ pc = "sedDesc"
    /\ IF SedFails(APP_DESCRIPTION)
       THEN /\ Exit1
            /\ steps' = Append(steps, [cmd |-> "sed description", ok |-> FALSE])
            /\ UNCHANGED <<files, stdout>>
       ELSE /\ files' = SedInPlace(files, PH_DESC, APP_DESCRIPTION)
            /\ steps' = Append(steps, [cmd |-> "sed description", ok |-> TRUE])
            /\ stdout' = Append(stdout, "Placeholders replaced")
            /\ pc' = "install"
            /\ UNCHANGED exitCode
    /\ UNCHANGED <<APP_NAME, APP_DESCRIPTION>>

\* echo "Installing dependencies..."; npm install
NpmInstall(ok) ==
    /\ pc = "install"
    /\ stdout' = Append(stdout, "Installing dependencies...")
    /\ steps' = Append(steps, [cmd |-> "npm install", ok |-> ok])
    /\ IF ok THEN pc' = "typecheck" /\ UNCHANGED exitCode ELSE Exit1
    /\ UNCHANGED <<APP_NAME, APP_DESCRIPTION, files>>

\* echo "Running initial validation..."; npm run typecheck
NpmTypecheck(ok) ==
    /\ pc = "typecheck"
    /\ stdout' = Append(stdout, "Running initial validation...")
    /\ steps' = Append(steps, [cmd |-> "npm run typecheck", ok |-> ok])
    /\ IF ok THEN pc' = "complete" /\ UNCHANGED exitCode ELSE Exit1
    /\ UNCHANGED <<APP_NAME, APP_DESCRIPTION, files>>

\* echo "Setup complete!" and the next steps; the script ends
Complete ==
    /\ pc = "complete"
    /\ stdout' = Append(stdout, "Setup complete!")
    /\ pc' = "done"
    /\ exitCode' = "0"
    /\ UNCHANGED <<APP_NAME, APP_DESCRIPTION, files, steps>>

----------------------------------------------------------------------------
(* Specifications *)

Init == RuntimeInit /\ SetupInit

Next ==
    \/ \E raw \in RawConfigs : Install(raw) /\ UNCHANGED setupVars
    \/ \E raw \in RawConfigs : UpdateConfig(raw) /\ UNCHANGED setupVars
    \/ \E i \in Instances, m \in Messages : Enqueue(i, m) /\ UNCHANGED setupVars
    \/ \E i \in Instances : Dispatch(i) /\ UNCHANGED setupVars
    \/ \E e \in Events : EmitResolve(e) /\ UNCHANGED setupVars
    \/ \E e \in Events : EmitReject(e) /\ UNCHANGED setupVars

Spec == Init /\ [][Next]_vars

SetupNext ==
    \/ \E name \in Inputs, desc \in Inputs : ReadInputs(name, desc) /\ UNCHANGED runtimeVars
    \/ ReadEOF /\ UNCHANGED runtimeVars
    \/ CheckInputs /\ UNCHANGED runtimeVars
    \/ SedName /\ UNCHANGED runtimeVars
    \/ SedDesc /\ UNCHANGED runtimeVars
    \/ \E ok \in BOOLEAN : NpmInstall(ok) /\ UNCHANGED runtimeVars
    \/ \E ok \in BOOLEAN : NpmTypecheck(ok) /\ UNCHANGED runtimeVars
    \/ Complete /\ UNCHANGED runtimeVars

SetupSpec == Init /\ [][SetupNext]_vars

----------------------------------------------------------------------------
(* Properties of the block runtime (Spec) *)

Range(q) == {q[k] : k \in 1..Len(q)}

\* needle occurs in hay as a contiguous substring
Contains(hay, needle) ==
    \E i \in 0..Len(hay) :
        /\ i + Len(needle) <= Len(hay)
        /\ SubSeq(hay, i + 1, i + Len(needle)) = needle

\* positions of an entry in the history
Pos(entry) == {k \in 1..Len(log) : log[k] = entry}
Started(e) == Pos(Start(e)) # {}
Settled(e) == Pos(Settle(e)) # {}
Before(x, y) == \E j \in Pos(x), k \in Pos(y) : j < k

\* the events routed for invocation e
EmittedBy(e) == {k \in 1..Len(emitted) : emitted[k].src = e}

Hi == <<"h", "i">>
Secret123 == <<"s", "e", "c", "r", "e", "t", "1", "2", "3">>

\* C1: no emitted event carries the complete plaintext apiKey of the
\* configuration its invocation ran with, in any field of its payload.
C1_ApiKeyNeverEchoed ==
    \A k \in 1..Len(emitted) :
        \A f \in DOMAIN emitted[k].payload :
            ~Contains(emitted[k].payload[f].v, inv[emitted[k].src].config.apiKey.v)

\* C2: an invocation that completed has emitted exactly one event, on the
\* default output, with originalMessage equal to the event's message m and
\* message containing "Processed: " followed by m; an invocation that has
\* not completed has emitted nothing.
C2_OneEventEchoingMessage ==
    \A e \in Events :
        /\ inv[e].status = "done" => Cardinality(EmittedBy(e)) = 1
        /\ inv[e].status # "done" => EmittedBy(e) = {}
        /\ \A k \in EmittedBy(e) :
               /\ emitted[k].output = "default"
               /\ emitted[k].payload.originalMessage = inv[e].params.message
               /\ Contains(emitted[k].payload.message.v,
                           <<"P", "r", "o", "c", "e", "s", "s", "e", "d", ":", " ">>
                               \o inv[e].params.message.v)

\* C2 witness: the end-to-end scenario, apiKey "secret123", baseUrl unset,
\* message "hi", completed with its event emitted.
C2_Witness ==
    \E e \in Events :
        /\ inv[e].status = "done"
        /\ inv[e].params.message = Str(Hi)
        /\ inv[e].config.apiKey = Str(Secret123)
        /\ rawConfig.baseUrl = Undefined
        /\ EmittedBy(e) # {}

\* C3: an event without message is never entered into the handler: it is
\* queued or rejected, the rejection is reported, the handler built no
\* payload for it and nothing was emitted for it.
C3_MissingMessageRejected ==
    \A e \in Events :
        (inv[e].status # "none" /\ inv[e].params.message.t = "undefined")
            => /\ inv[e].status \in {"queued", "rejected"}
               /\ ~Started(e)
               /\ inv[e].payload = NoPayload
               /\ EmittedBy(e) = {}
               /\ inv[e].status = "rejected" => e \in reported

\* C3 witness: an event without message was dispatched and rejected.
C3_Witness ==
    \E e \in Events :
        /\ inv[e].status = "rejected"
        /\ inv[e].params.message = Undefined
        /\ Settled(e)

\* C4: an installation whose apiKey is missing or empty ends in a
\* configuration error and no handler ever runs for it; every handler that
\* was entered ran with a non-empty string apiKey.
C4_NoStartWithoutApiKey ==
    /\ (appStatus # "uninstalled"
            /\ (rawConfig.apiKey.t = "undefined" \/ rawConfig.apiKey.v = <<>>))
        => /\ appStatus = "configError"
           /\ log = <<>>
           /\ emitted = <<>>
           /\ \A e \in Events : inv[e].status \in {"none", "queued"}
    /\ \A e \in Events :
           Started(e) => inv[e].config.apiKey.t = "string"
                         /\ inv[e].config.apiKey.v # <<>>

\* C4 witness: installed without apiKey, in configuration error, with an
\* event waiting that is never dispatched.
C4_Witness ==
    /\ appStatus = "configError"
    /\ rawConfig.apiKey = Undefined
    /\ queue[1] # <<>>

\* C5: while baseUrl is left unset the resolved baseUrl is exactly
\* "https://api.example.com" and resolving the raw input again gives the
\* current snapshot; a step never changes the configuration or the payload
\* of an invocation that is in flight, and an emitted message carries the
\* baseUrl of the snapshot its invocation started with.
C5_DefaultAndSnapshot ==
    /\ [](/\ (appStatus = "running" /\ rawConfig.baseUrl = Undefined)
              => config.baseUrl =
                   Str(<<"h", "t", "t", "p", "s", ":", "/", "/", "a", "p", "i", ".",
                         "e", "x", "a", "m", "p", "l", "e", ".", "c", "o", "m">>)
          /\ appStatus = "running" => config = ResolveConfig(rawConfig).config
          /\ \A k \in 1..Len(emitted) :
                 Contains(emitted[k].payload.message.v,
                          <<"u", "s", "i", "n", "g", " ">>
                              \o inv[emitted[k].src].config.baseUrl.v))
    /\ [][\A e \in Events :
              inv[e].status = "awaiting"
                  => /\ inv'[e].config = inv[e].config
                     /\ inv'[e].payload = inv[e].payload]_vars

\* C5 witness: baseUrl is unset and resolved to the default, while an
\* invocation started under an earlier snapshot with another baseUrl has
\* completed with that earlier baseUrl in its message.
C5_Witness ==
    /\ appStatus = "running"
    /\ rawConfig.baseUrl = Undefined
    /\ config.baseUrl = Str(DefaultBaseUrl)
    /\ \E e \in Events :
           /\ inv[e].status = "done"
           /\ inv[e].config # config
           /\ inv[e].config.baseUrl # config.baseUrl
           /\ \E k \in EmittedBy(e) :
                  Contains(emitted[k].payload.message.v, inv[e].config.baseUrl.v)

\* C6: of two events queued in order a, b on the same input of the same
\* block instance, b is dispatched only after a, and if both handlers were
\* entered, a's was entered first.
C6_FifoPerInput ==
    \A a, b \in Events :
        (/\ a < b
         /\ inv[a].inst = inv[b].inst
         /\ inv[b].status \notin {"none", "queued"})
            => /\ inv[a].status \notin {"none", "queued"}
               /\ Started(b) /\ Started(a) => Before(Start(a), Start(b))
               /\ Started(b) /\ Settled(a) /\ ~Started(a) => Before(Settle(a), Start(b))

\* C6 witness: a and b were queued in that order on one input, a is
\* suspended at its await, and b has completed and emitted.
C6_Witness ==
    \E a, b \in Events :
        /\ a < b
        /\ inv[a].inst = inv[b].inst
        /\ inv[a].status = "awaiting"
        /\ inv[b].status = "done"
        /\ EmittedBy(b) # {}

\* Events on different block instances may start in either order.
CrossInstanceInversion ==
    \E a, b \in Events :
        /\ a < b
        /\ inv[a].inst # inv[b].inst
        /\ Started(a) /\ Started(b)
        /\ Before(Start(b), Start(a))

\* C7: an invocation whose awaited emit was rejected is failed; a failed
\* invocation is reported and has emitted nothing; no handler is entered or
\* settled twice; the step in which an invocation fails leaves the app
\* running and every other invocation and every emitted event as they were;
\* and a settled invocation never changes again.
C7_FailureIsolated ==
    /\ [](\A e \in Events :
              /\ inv[e].emitRejected => inv[e].status = "failed"
              /\ inv[e].status = "failed" => e \in reported /\ EmittedBy(e) = {}
              /\ Cardinality(Pos(Start(e))) <= 1
              /\ Cardinality(Pos(Settle(e))) <= 1)
    /\ [][\A e \in Events :
              /\ (inv[e].status # "failed" /\ inv'[e].status = "failed")
                     => /\ appStatus' = "running"
                        /\ emitted' = emitted
                        /\ \A f \in Events \ {e} : inv'[f] = inv[f]
              /\ inv[e].status \in {"failed", "done", "rejected"}
                     => inv'[e] = inv[e]]_vars

\* C7 witness: e failed while f was in flight, and f completed and emitted
\* after e's failure.
C7_Witness ==
    \E e, f \in Events :
        /\ e # f
        /\ inv[e].status = "failed"
        /\ e \in reported
        /\ inv[f].status = "done"
        /\ EmittedBy(f) # {}
        /\ Before(Start(f), Settle(e))
        /\ Before(Settle(e), Settle(f))

\* C8: every payload the handler passes to events.emit goes to an output the
\* block declares, the only one flagged default, and has message and
\* originalMessage, both strings; every routed event is on a declared output.
C8_EmitsConform ==
    /\ \A e \in Events :
           inv[e].payload # NoPayload
               => /\ EmitOutput \in DOMAIN Outputs
                  /\ Outputs[EmitOutput].default
                  /\ Cardinality({k \in DOMAIN Outputs : Outputs[k].default}) = 1
                  /\ {"message", "originalMessage"} \subseteq DOMAIN inv[e].payload
                  /\ inv[e].payload.message.t = "string"
                  /\ inv[e].payload.originalMessage.t = "string"
    /\ \A k \in 1..Len(emitted) : emitted[k].output \in {"default"}

\* C8 witness: a handler has called events.emit and is suspended on it.
C8_Witness ==
    \E e \in Events :
        /\ inv[e].status = "awaiting"
        /\ inv[e].payload # NoPayload
        /\ inv[e].params.message = Str(Hi)

----------------------------------------------------------------------------
(* Properties of setup.sh (SetupSpec) *)

HasPlaceholder(content) == PH_NAME \in Range(content) \/ PH_DESC \in Range(content)

\* C9: once the script has reported the placeholders replaced, no file of
\* the template contains {{APP_NAME}} or {{APP_DESCRIPTION}}.
C9_NoPlaceholderRemains ==
    "Placeholders replaced" \in Range(stdout)
        => \A f \in DOMAIN files : ~HasPlaceholder(files[f])

\* C10: with an empty name or description the script has, past its check,
\* exited with status 1, changed no file, run no command and not reported
\* completion; completion is reported only after the two replacements, npm
\* install and npm run typecheck have succeeded, in that order.
C10_EmptyInputExitsEarly ==
    /\ (pc \notin {"read", "check"} /\ (APP_NAME = <<>> \/ APP_DESCRIPTION = <<>>))
        => /\ pc = "exit"
           /\ exitCode = "1"
           /\ files = TemplateFiles
           /\ steps = <<>>
           /\ "Setup complete!" \notin Range(stdout)
    /\ "Setup complete!" \in Range(stdout)
        => steps = <<[cmd |-> "sed name", ok |-> TRUE],
                     [cmd |-> "sed description", ok |-> TRUE],
                     [cmd |-> "npm install", ok |-> TRUE],
                     [cmd |-> "npm run typecheck", ok |-> TRUE]>>

\* C10 witness: the name was left empty, the description was not, and the
\* script has exited with status 1 after reporting both as required.
C10_Witness ==
    /\ pc = "exit"
    /\ exitCode = "1"
    /\ APP_NAME = <<>>
    /\ APP_DESCRIPTION # <<>>
    /\ "App name and description are required" \in Range(stdout)

\* The script ran to completion.
SetupCompleted == pc = "done" /\ "Setup complete!" \in Range(stdout)

====
